---------------------------- MODULE Spec2Model ----------------------------
(***************************************************************************)
(* Grievance portal: the voice-complaint pipeline of ComplaintForm.tsx     *)
(* (record/upload -> transcribe -> translate -> categorize -> autofill)    *)
(* and the output normalizer of services/llm-models.ts.                    *)
(*                                                                         *)
(* JavaScript strings are modelled as sequences of one-character strings,  *)
(* so that split, trim, toLowerCase, includes, substring and the JSON      *)
(* regular expression are computed character by character.                 *)
(***************************************************************************)
EXTENDS Integers, Sequences, FiniteSets, TLC

(***************************************************************************)
(* JavaScript values and string primitives                                 *)
(***************************************************************************)

\* The JavaScript value undefined (a missing key, an absent line).  It is a
\* one-element tuple whose element is not a character, so it differs from
\* every string.
Undefined == <<"undefined">>

EmptyStr == <<>>

\* !v for the values the model handles (strings and undefined).
Falsy(v) == v = EmptyStr \/ v = Undefined

\* a || b
OrElse(a, b) == IF Falsy(a) THEN b ELSE a

Whitespace == {" ", "\n", "\t"}

UpperLetters == <<"A","B","C","D","E","F","G","H","I","J","K","L","M",
                  "N","O","P","Q","R","S","T","U","V","W","X","Y","Z">>

LowerLetters == <<"a","b","c","d","e","f","g","h","i","j","k","l","m",
                  "n","o","p","q","r","s","t","u","v","w","x","y","z">>

LowerChar(c) ==
    IF \E i \in DOMAIN UpperLetters : UpperLetters[i] = c
    THEN LowerLetters[CHOOSE i \in DOMAIN UpperLetters : UpperLetters[i] = c]
    ELSE c

\* String.prototype.toLowerCase
toLowerCase(s) == [i \in 1..Len(s) |-> LowerChar(s[i])]

\* String.prototype.trim
trim(s) ==
    LET keep == {i \in 1..Len(s) : s[i] \notin Whitespace}
    IN  IF keep = {} THEN EmptyStr
        ELSE SubSeq(s, CHOOSE i \in keep : \A j \in keep : i <= j,
                       CHOOSE i \in keep : \A j \in keep : j <= i)

\* String.prototype.includes
includes(s, w) ==
    \E i \in 1..(Len(s) - Len(w) + 1) : SubSeq(s, i, i + Len(w) - 1) = w

\* String.prototype.substring(0, n)
substring0(s, n) == SubSeq(s, 1, IF Len(s) < n THEN Len(s) ELSE n)

\* String.prototype.split(sep) for a one-character separator: the pieces
\* between consecutive separators, empty pieces included.
split(s, sep) ==
    LET P == {i \in 1..Len(s) : s[i] = sep}
        n == Cardinality(P)
        pos(k) == IF k = 0 THEN 0
                  ELSE IF k = n + 1 THEN Len(s) + 1
                  ELSE CHOOSE i \in P : Cardinality({j \in P : j <= i}) = k
    IN  [k \in 1..(n + 1) |-> SubSeq(s, pos(k - 1) + 1, pos(k) - 1)]

\* Array.prototype.join(sep)
RECURSIVE join(_, _)
join(parts, sep) ==
    IF Len(parts) = 0 THEN EmptyStr
    ELSE IF Len(parts) = 1 THEN parts[1]
    ELSE parts[1] \o <<sep>> \o join(Tail(parts), sep)

(***************************************************************************)
(* Vocabulary of llm-models.ts                                             *)
(***************************************************************************)

K_department  == <<"d","e","p","a","r","t","m","e","n","t">>
K_location    == <<"l","o","c","a","t","i","o","n">>
K_severity    == <<"s","e","v","e","r","i","t","y">>
K_description == <<"d","e","s","c","r","i","p","t","i","o","n">>
K_summary     == <<"s","u","m","m","a","r","y">>

W_road    == <<"r","o","a","d">>
W_traffic == <<"t","r","a","f","f","i","c">>
W_water   == <<"w","a","t","e","r">>
W_waste   == <<"w","a","s","t","e">>
W_garbage == <<"g","a","r","b","a","g","e">>

roads_and_traffic ==
    <<"r","o","a","d","s","_","a","n","d","_","t","r","a","f","f","i","c">>
water_supply == <<"w","a","t","e","r","_","s","u","p","p","l","y">>
solid_waste_management ==
    <<"s","o","l","i","d","_","w","a","s","t","e","_",
      "m","a","n","a","g","e","m","e","n","t">>

low      == <<"l","o","w">>
medium   == <<"m","e","d","i","u","m">>
high     == <<"h","i","g","h">>
critical == <<"c","r","i","t","i","c","a","l">>

\* LLMOutput['department'] and LLMOutput['severity']
DepartmentEnum == {roads_and_traffic, water_supply, solid_waste_management}
SeverityEnum   == {low, medium, high, critical}

NoDescriptionProvided ==
    <<"N","o"," ","d","e","s","c","r","i","p","t","i","o","n"," ",
      "p","r","o","v","i","d","e","d">>
NoSummaryProvided ==
    <<"N","o"," ","s","u","m","m","a","r","y"," ","p","r","o","v","i","d","e","d">>

\* substring(0, 80) in parsePlainTextOutput
SummaryLen == 80

(***************************************************************************)
(* parsePlainTextOutput                                                    *)
(***************************************************************************)

\* const output = { department: 'roads_and_traffic', location: '', ... }
PlainDefaults ==
    [department  |-> roads_and_traffic,
     location    |-> EmptyStr,
     severity    |-> medium,
     description |-> EmptyStr,
     summary     |-> EmptyStr]

\* The department branch with "water" tried before "road" and "traffic".
MapDepartment_WaterFirst(prev, value) ==
    LET dept == toLowerCase(value)
    IN  IF includes(dept, W_water) THEN water_supply
        ELSE IF includes(dept, W_road) \/ includes(dept, W_traffic)
          THEN roads_and_traffic
        ELSE IF includes(dept, W_waste) \/ includes(dept, W_garbage)
          THEN solid_waste_management
        ELSE prev

\* The department branch: the first keyword set that matches wins, and a
\* value matching none leaves the field as it was.
MapDepartment(prev, value) ==
    LET dept == toLowerCase(value)
    IN  IF includes(dept, W_road) \/ includes(dept, W_traffic)
          THEN roads_and_traffic
        ELSE IF includes(dept, W_water) THEN water_supply
        ELSE IF includes(dept, W_waste) \/ includes(dept, W_garbage)
          THEN solid_waste_management
        ELSE prev

\* The severity branch with every value read as the default.
MapSeverity_AlwaysPrev(prev, value) == prev

\* The severity branch: the lowercased value, when it is an enum member.
MapSeverity(prev, value) ==
    LET sev == toLowerCase(value)
    IN  IF sev \in SeverityEnum THEN sev ELSE prev

\* One iteration of the loop over the lines.
PlainLine(output, line) ==
    LET parts    == split(line, ":")
        key      == parts[1]
        value    == trim(join(Tail(parts), ":"))
        lowerKey == trim(toLowerCase(key))
    IN  IF Falsy(value) THEN output
        ELSE IF includes(lowerKey, K_department)
          THEN [output EXCEPT !.department = MapDepartment(@, value)]
        ELSE IF includes(lowerKey, K_severity)
          THEN [output EXCEPT !.severity = MapSeverity(@, value)]
        ELSE IF includes(lowerKey, K_location)
          THEN [output EXCEPT !.location = value]
        ELSE IF includes(lowerKey, K_description)
          THEN [output EXCEPT !.description = value]
        ELSE IF includes(lowerKey, K_summary)
          THEN [output EXCEPT !.summary = value]
        ELSE output

\* The loop reading the fields by position (first line the department,
\* second the severity, ...) instead of by label.
PlainLoop_Positional(output, lines) ==
    LET value(k) == trim(join(Tail(split(lines[k], ":")), ":"))
        has(k)   == k <= Len(lines) /\ ~Falsy(value(k))
    IN  [department  |-> IF has(1) THEN MapDepartment(output.department, value(1))
                         ELSE output.department,
         severity    |-> IF has(2) THEN MapSeverity(output.severity, value(2))
                         ELSE output.severity,
         location    |-> IF has(3) THEN value(3) ELSE output.location,
         description |-> IF has(4) THEN value(4) ELSE output.description,
         summary     |-> IF has(5) THEN value(5) ELSE output.summary]

\* for (const line of lines) { ... }
RECURSIVE PlainLoop(_, _)
PlainLoop(output, lines) ==
    IF Len(lines) = 0 THEN output
    ELSE PlainLoop(PlainLine(output, Head(lines)), Tail(lines))

\* text.split('\n').map(line => line.trim()).filter(line => line)
PlainLines(text) ==
    LET raw     == split(text, "\n")
        trimmed == [i \in 1..Len(raw) |-> trim(raw[i])]
        nonEmpty(l) == l # EmptyStr
    IN  SelectSeq(trimmed, nonEmpty)

\* The defaulting without the summary as a stand-in for the description.
PlainFill_NoSummaryFallback(output) ==
    LET d == IF Falsy(output.description) THEN NoDescriptionProvided
             ELSE output.description
        s == IF Falsy(output.summary)
             THEN OrElse(substring0(d, SummaryLen), NoSummaryProvided)
             ELSE output.summary
    IN  [output EXCEPT !.description = d, !.summary = s]

\* The defaulting with the summary derived from the description as the
\* lines gave it, before its own default.
PlainFill_SummaryFromRaw(output) ==
    LET d == IF Falsy(output.description)
             THEN OrElse(output.summary, NoDescriptionProvided)
             ELSE output.description
        s == IF Falsy(output.summary)
             THEN OrElse(substring0(output.description, SummaryLen),
                         NoSummaryProvided)
             ELSE output.summary
    IN  [output EXCEPT !.description = d, !.summary = s]

\* The two defaulting statements that end parsePlainTextOutput.
PlainFill(output) ==
    LET d == IF Falsy(output.description)
             THEN OrElse(output.summary, NoDescriptionProvided)
             ELSE output.description
        s == IF Falsy(output.summary)
             THEN OrElse(substring0(d, SummaryLen), NoSummaryProvided)
             ELSE output.summary
    IN  [output EXCEPT !.description = d, !.summary = s]

parsePlainTextOutput(text) ==
    PlainFill(PlainLoop(PlainDefaults, PlainLines(text)))

(***************************************************************************)
(* The embedded-JSON path of callFineTunedLLM                              *)
(***************************************************************************)

\* generatedText.match(/\{[\s\S]*\}/): the match runs from the first "{" to
\* the last "}" of the text (the star is greedy); no match when no "}" follows
\* the first "{".
JsonMatch(text) ==
    LET opens  == {i \in 1..Len(text) : text[i] = "{"}
        closes == {i \in 1..Len(text) : text[i] = "}"}
        a == CHOOSE i \in opens : \A j \in opens : i <= j
        b == CHOOSE i \in closes : \A j \in closes : j <= i
    IN  IF opens = {} \/ closes = {} THEN Undefined
        ELSE IF a < b THEN SubSeq(text, a, b)
        ELSE Undefined

\* JSON.parse on the texts the model feeds it: a flat object whose member
\* values are strings without escapes, with optional white space between the
\* tokens.  Everything else the model feeds it is not JSON at all, and is a
\* SyntaxError (ok = FALSE).  A repeated key keeps its last value.
JSONParse(s) ==
    LET Q     == {i \in 1..Len(s) : s[i] = "\""}
        nq    == Cardinality(Q)
        before(i)  == Cardinality({j \in Q : j < i})
        q(k)       == CHOOSE i \in Q : before(i) = k - 1
        opening(i) == before(i) % 2 = 0
        inside(i)  == i \notin Q /\ before(i) % 2 = 1
        mark  == [i \in 1..Len(s) |->
                    IF i \in Q THEN (IF opening(i) THEN "S" ELSE "")
                    ELSE IF s[i] \in Whitespace \/ inside(i) THEN ""
                    ELSE s[i]]
        kept(c) == c # ""
        sk    == SelectSeq(mark, kept)
        n     == Len(sk)
        shape == /\ nq % 2 = 0
                 /\ n >= 2 /\ sk[1] = "{" /\ sk[n] = "}"
                 /\ (n = 2 \/ (n - 2) % 4 = 3)
                 /\ \A j \in 2..(n - 1) :
                        sk[j] = CASE (j - 2) % 4 = 0 -> "S"
                                  [] (j - 2) % 4 = 1 -> ":"
                                  [] (j - 2) % 4 = 2 -> "S"
                                  [] OTHER           -> ","
                 /\ \A i \in 1..Len(s) :
                        s[i] \in {"\n", "\t", "\\"} => ~inside(i)
        str(k)   == SubSeq(s, q(2 * k - 1) + 1, q(2 * k) - 1)
        nm       == nq \div 4
        keys     == {str(2 * m - 1) : m \in 1..nm}
        last(k)  == CHOOSE m \in 1..nm :
                        /\ str(2 * m - 1) = k
                        /\ \A m2 \in 1..nm : str(2 * m2 - 1) = k => m2 <= m
    IN  IF shape THEN [ok |-> TRUE, obj |-> [k \in keys |-> str(2 * last(k))]]
        ELSE [ok |-> FALSE, obj |-> <<>>]

\* obj.key: undefined when the object has no such key.
Get(obj, key) == IF key \in DOMAIN obj THEN obj[key] ELSE Undefined

\* The five fields callFineTunedLLM and its callers read from parsedOutput
\* when parsedOutput is an object that did not come from
\* parsePlainTextOutput ("parsedOutput = generatedText as LLMOutput",
\* "parsedOutput = JSON.parse(jsonMatch[0])"): a cast, no conversion.
AsLLMOutput(obj) ==
    [department  |-> Get(obj, K_department),
     location    |-> Get(obj, K_location),
     severity    |-> Get(obj, K_severity),
     description |-> Get(obj, K_description),
     summary     |-> Get(obj, K_summary)]

(***************************************************************************)
(* callFineTunedLLM                                                        *)
(***************************************************************************)

\* What result.generated_text (or result.output) can hold: a string, an
\* object, or nothing.
RawString(t) == [kind |-> "string", text |-> t, obj |-> <<>>]
RawObject(o) == [kind |-> "object", text |-> EmptyStr, obj |-> o]
RawMissing   == [kind |-> "undefined", text |-> EmptyStr, obj |-> <<>>]

RawFalsy(r) == r.kind = "undefined" \/ (r.kind = "string" /\ r.text = EmptyStr)

\* What fetch(`${LOCAL_MODEL_URL}/categorize`) can come to: a rejected
\* promise, or a response with its ok flag and its JSON body.
NetworkFailure == [net |-> "rejected", httpOk |-> FALSE, success |-> FALSE,
                   error |-> "", generated_text |-> RawMissing,
                   output |-> RawMissing]
ServiceFailure(msg) ==
    [NetworkFailure EXCEPT !.net = "responded", !.httpOk = TRUE, !.error = msg]
ServiceSuccess(raw) ==
    [NetworkFailure EXCEPT !.net = "responded", !.httpOk = TRUE,
                           !.success = TRUE, !.generated_text = raw]

NoOutput == [department |-> Undefined, location |-> Undefined,
             severity |-> Undefined, description |-> Undefined,
             summary |-> Undefined]

Resolved(out) == [ok |-> TRUE, out |-> out, error |-> ""]
Rejected(msg) == [ok |-> FALSE, out |-> NoOutput, error |-> msg]

\* The same without the catch block's fallback: a span that is not JSON
\* gives no output at all.
ParseGenerated_NoFallback(generatedText) ==
    IF generatedText.kind = "object" THEN AsLLMOutput(generatedText.obj)
    ELSE LET jsonMatch == JsonMatch(generatedText.text)
             parsed    == JSONParse(jsonMatch)
         IN  IF jsonMatch = Undefined
               THEN parsePlainTextOutput(generatedText.text)
             ELSE IF parsed.ok THEN AsLLMOutput(parsed.obj)
             ELSE NoOutput

\* "Try to parse the output": an object is taken as it is; in a string the
\* JSON span is tried first, and parsePlainTextOutput is used when there is
\* no span or when JSON.parse throws.  parsePlainTextOutput does not throw on
\* a string, so the inner "Failed to parse LLM output" is never raised here.
ParseGenerated(generatedText) ==
    IF generatedText.kind = "object" THEN AsLLMOutput(generatedText.obj)
    ELSE LET jsonMatch == JsonMatch(generatedText.text)
             parsed    == JSONParse(jsonMatch)
         IN  IF jsonMatch # Undefined /\ parsed.ok
               THEN AsLLMOutput(parsed.obj)
             ELSE parsePlainTextOutput(generatedText.text)

\* The validation with the location required as well.
MissingRequired_WithLocation(parsedOutput) ==
    \/ Falsy(parsedOutput.department)
    \/ Falsy(parsedOutput.location)
    \/ Falsy(parsedOutput.severity)
    \/ Falsy(parsedOutput.description)
    \/ Falsy(parsedOutput.summary)

\* "Validate the output - ensure we have all required fields"
MissingRequired(parsedOutput) ==
    \/ Falsy(parsedOutput.department)
    \/ Falsy(parsedOutput.severity)
    \/ Falsy(parsedOutput.description)
    \/ Falsy(parsedOutput.summary)

\* callFineTunedLLM(userInput, model) for the response the server gives.
\* Every throw inside the outer try is rethrown by its catch, so the promise
\* rejects with that error.
callFineTunedLLM(userInput, response) ==
    IF response.net = "rejected" THEN Rejected("Failed to fetch")
    ELSE IF ~response.httpOk THEN Rejected("Local model server error")
    ELSE IF ~response.success
      THEN Rejected(IF response.error # "" THEN response.error
                    ELSE "Model processing failed")
    ELSE LET generatedText ==
                 IF ~RawFalsy(response.generated_text)
                   THEN response.generated_text
                 ELSE IF ~RawFalsy(response.output) THEN response.output
                 ELSE RawString(EmptyStr)
             parsedOutput == ParseGenerated(generatedText)
         IN  IF MissingRequired(parsedOutput)
               THEN Rejected("Invalid LLM output structure - missing required fields")
             ELSE Resolved(parsedOutput)

(***************************************************************************)
(* categorizeWithFallback and simpleCategorization                         *)
(***************************************************************************)

RuleWaterWords    == {<<"w","a","t","e","r">>, <<"p","a","a","n","i">>, <<"p","i","p","e","l","i","n","e">>}
RuleWasteWords    == {<<"g","a","r","b","a","g","e">>, <<"k","a","c","h","r","a">>, <<"w","a","s","t","e">>}
RuleCriticalWords == {<<"u","r","g","e","n","t">>, <<"e","m","e","r","g","e","n","c","y">>, <<"c","r","i","t","i","c","a","l">>}
RuleHighWords     == {<<"s","e","r","i","o","u","s">>, <<"h","i","g","h">>}
RuleLowWords      == {<<"m","i","n","o","r">>, <<"l","o","w">>}

\* lowerInput.includes(w) for one of the words.
IncludesAny(lowerInput, words) == \E w \in words : includes(lowerInput, w)

\* The end of the longest match of [A-Z][a-z]+(?:\s+[A-Z][a-z]+)* that
\* starts at position i of text, 0 when there is none.
RECURSIVE CapitalizedEnd(_, _)
CapitalizedEnd(text, i) ==
    LET n       == Len(text)
        isUp(k) == k <= n /\ \E j \in DOMAIN UpperLetters : UpperLetters[j] = text[k]
        isLo(k) == k <= n /\ \E j \in DOMAIN LowerLetters : LowerLetters[j] = text[k]
        isWs(k) == k <= n /\ text[k] \in Whitespace
        \* the last of the lower-case letters that start at k
        lastLo  == CHOOSE e \in i..n :
                      /\ \A k \in (i + 1)..e : isLo(k)
                      /\ ~isLo(e + 1)
        \* the first position after the white space that starts at k
        afterWs(k) == CHOOSE e \in k..(n + 1) :
                         /\ \A j \in k..(e - 1) : isWs(j)
                         /\ ~isWs(e)
    IN  IF ~(isUp(i) /\ isLo(i + 1)) THEN 0
        ELSE IF isWs(lastLo + 1)
                /\ CapitalizedEnd(text, afterWs(lastLo + 1)) # 0
          THEN CapitalizedEnd(text, afterWs(lastLo + 1))
        ELSE lastLo

\* input.match(/<word> ([A-Z][a-z]+(?:\s+[A-Z][a-z]+)*)/): the first group
\* of the leftmost match, Undefined when nothing matches.
MatchAfter(input, word) ==
    LET lead   == word \o <<" ">>
        starts == {i \in 1..Len(input) :
                     /\ i + Len(lead) - 1 <= Len(input)
                     /\ SubSeq(input, i, i + Len(lead) - 1) = lead
                     /\ CapitalizedEnd(input, i + Len(lead)) # 0}
        first  == CHOOSE i \in starts : \A j \in starts : i <= j
    IN  IF starts = {} THEN Undefined
        ELSE SubSeq(input, first + Len(lead),
                    CapitalizedEnd(input, first + Len(lead)))

\* const locationPatterns = [/in .../, /at .../, /near .../]
locationPatterns == <<<<"i","n">>, <<"a","t">>, <<"n","e","a","r">>>>

\* for (const pattern of locationPatterns) { ... break; }
RuleLocation(input) ==
    LET hit(w) == MatchAfter(input, w) # Undefined
        hits   == SelectSeq(locationPatterns, hit)
    IN  IF Len(hits) = 0 THEN EmptyStr ELSE MatchAfter(input, hits[1])

RuleSummaryLen == 100

Ellipsis == <<".", ".", ".">>

\* let department = 'roads_and_traffic'; if (...) department = ...
RuleDepartment(lowerInput) ==
    IF IncludesAny(lowerInput, RuleWaterWords) THEN water_supply
    ELSE IF IncludesAny(lowerInput, RuleWasteWords) THEN solid_waste_management
    ELSE roads_and_traffic

\* let severity = 'medium'; if (...) severity = ...
RuleSeverity(lowerInput) ==
    IF IncludesAny(lowerInput, RuleCriticalWords) THEN critical
    ELSE IF IncludesAny(lowerInput, RuleHighWords) THEN high
    ELSE IF IncludesAny(lowerInput, RuleLowWords) THEN low
    ELSE medium

\* The summary with the dots added from 100 characters on.
RuleSummary_DotsFrom100(input) ==
    substring0(input, RuleSummaryLen)
    \o (IF Len(input) >= RuleSummaryLen THEN Ellipsis ELSE EmptyStr)

\* input.substring(0, 100) + (input.length > 100 ? '...' : '')
RuleSummary(input) ==
    substring0(input, RuleSummaryLen)
    \o (IF Len(input) > RuleSummaryLen THEN Ellipsis ELSE EmptyStr)

simpleCategorization(input) ==
    LET lowerInput == toLowerCase(input) IN
    [department  |-> RuleDepartment(lowerInput),
     location    |-> RuleLocation(input),
     severity    |-> RuleSeverity(lowerInput),
     description |-> input,
     summary     |-> RuleSummary(input)]

\* try { return await callFineTunedLLM(...) } catch { return
\* simpleCategorization(userInput) }
categorizeWithFallback(userInput, response) ==
    LET llm == callFineTunedLLM(userInput, response)
    IN  IF llm.ok THEN llm ELSE Resolved(simpleCategorization(userInput))

(***************************************************************************)
(* Categorization outputs the normalizer is run on                         *)
(***************************************************************************)

V_water       == <<"w","a","t","e","r">>
V_WaterBoard  == <<"W","a","t","e","r"," ","B","o","a","r","d">>
V_waterOnRoad == <<"w","a","t","e","r"," ","o","n"," ","r","o","a","d">>
V_GarbageDept == <<"G","a","r","b","a","g","e"," ","D","e","p","t">>
V_electricity == <<"e","l","e","c","t","r","i","c","i","t","y">>
V_Low         == <<"L","o","w">>
V_urgent      == <<"u","r","g","e","n","t">>
V_Andheri     == <<"A","n","d","h","e","r","i">>
V_PipeBurst   == <<"P","i","p","e"," ","b","u","r","s","t">>
V_PipeLeak    == <<"P","i","p","e"," ","l","e","a","k">>

\* A description longer than the 80 characters a derived summary keeps.
V_LongDescription ==
    LET p == V_PipeBurst \o <<" ">>
    IN  p \o p \o p \o p \o p \o p \o p \o V_PipeBurst

\* The values a model may give each field; Undefined is a field it left out.
DepartmentRaw == {Undefined, EmptyStr, V_water, V_WaterBoard, V_waterOnRoad,
                  V_GarbageDept, V_electricity, water_supply}
SeverityRaw    == {Undefined, low, V_Low, V_urgent, critical}
LocationRaw    == {Undefined, EmptyStr, V_Andheri}
DescriptionRaw == {Undefined, EmptyStr, V_PipeBurst, V_LongDescription}
SummaryRaw     == {Undefined, EmptyStr, V_PipeLeak}

Candidates ==
    [department : DepartmentRaw, location : LocationRaw,
     severity : SeverityRaw, description : DescriptionRaw,
     summary : SummaryRaw]

FieldOrder == <<"department", "severity", "location", "description", "summary">>

KeyOf(f) ==
    CASE f = "department"  -> K_department
      [] f = "severity"    -> K_severity
      [] f = "location"    -> K_location
      [] f = "description" -> K_description
      [] f = "summary"     -> K_summary

\* "Department", "Severity", ...: the key with its first letter in capitals.
LabelOf(f) ==
    LET k == KeyOf(f)
        up == UpperLetters[CHOOSE i \in DOMAIN LowerLetters :
                               LowerLetters[i] = k[1]]
    IN  <<up>> \o Tail(k)

Present(c) ==
    LET has(f) == c[f] # Undefined
    IN  SelectSeq(FieldOrder, has)

\* The candidate as the object a server puts in generated_text.
ObjectOf(c) ==
    [k \in {KeyOf(f) : f \in {g \in DOMAIN c : c[g] # Undefined}} |->
        c[CHOOSE f \in DOMAIN c : KeyOf(f) = k]]

\* The candidate as JSON text: {"department": "water", "severity": "low"}
JsonOf(c) ==
    LET fs == Present(c)
        member(f) == <<"\"">> \o KeyOf(f) \o <<"\"", ":", " ", "\"">>
                     \o c[f] \o <<"\"">>
        RECURSIVE members(_)
        members(i) == IF i > Len(fs) THEN EmptyStr
                      ELSE IF i = Len(fs) THEN member(fs[i])
                      ELSE member(fs[i]) \o <<",", " ">> \o members(i + 1)
    IN  <<"{">> \o members(1) \o <<"}">>

\* The candidate as 'Label: value' lines, the fields taken in the order
\* order[1], order[2], ...
LinesInOrder(c, order) ==
    LET has(f) == c[f] # Undefined
        fs == SelectSeq([i \in 1..Len(FieldOrder) |-> FieldOrder[order[i]]], has)
    IN  join([i \in 1..Len(fs) |-> LabelOf(fs[i]) \o <<":", " ">> \o c[fs[i]]],
             "\n")

InOrder == <<1, 2, 3, 4, 5>>

\* The candidate as 'Label: value' lines in the order department, severity,
\* location, description, summary.
LinesOf(c) == LinesInOrder(c, InOrder)

\* Key:value-looking prose a generative model may put around its JSON.
ProseBefore == <<"D","e","p","a","r","t","m","e","n","t",":"," ","g","a","r","b","a","g","e","\n","S","e","v","e","r","i","t","y",":"," ","h","i","g","h","\n">>
ProseAfter  == <<"\n","L","o","c","a","t","i","o","n",":"," ","D","a","d","a","r","\n","S","u","m","m","a","r","y",":"," ","d","o","n","e">>
ProseBrace  == <<"\n","S","u","m","m","a","r","y",":"," ","s","e","e"," ","}">>

Shapes == {"object", "json", "lines", "json_in_prose", "json_then_brace"}

\* The generated_text of a case: a candidate in one of the shapes.
RawOf(case) ==
    CASE case.shape = "object" -> RawObject(ObjectOf(case.cand))
      [] case.shape = "json"   -> RawString(JsonOf(case.cand))
      [] case.shape = "lines"  -> RawString(LinesInOrder(case.cand, case.order))
      [] case.shape = "json_in_prose" ->
             RawString(ProseBefore \o JsonOf(case.cand) \o ProseAfter)
      [] case.shape = "json_then_brace" ->
             RawString(JsonOf(case.cand) \o ProseBrace)

\* The candidates that give every field a value.
FullCandidates == {c \in Candidates : \A f \in DOMAIN c : ~Falsy(c[f])}

\* Every candidate in every shape, and the lines of the full candidates in
\* every other order.
Cases ==
    [shape : Shapes, cand : Candidates, order : {InOrder}]
    \cup [shape : {"lines"}, cand : FullCandidates,
          order : Permutations(1..5) \ {InOrder}]

(***************************************************************************)
(* Texts of the pipeline                                                   *)
(***************************************************************************)

\* What the speech-to-text service hears (romanized Hindi), its English
\* rendering, and what a user types into the transcript box.
T_hinglish == <<"p","a","a","n","i"," ","n","a","h","i">>
T_english  == <<"n","o"," ","w","a","t","e","r">>
T_typed    == <<"k","a","c","h","r","a">>

\* The text sent to categorization.
UserInputs == {T_hinglish, T_english, T_typed}

(***************************************************************************)
(* whisper-local.ts                                                        *)
(***************************************************************************)

\* GET /health of the speech-to-text server, as checkLocalWhisperHealth
\* sees it: a rejected fetch (or a body that is not JSON), or a body.
HealthResponses ==
    {[net |-> "rejected",  status |-> "",        model_loaded |-> FALSE],
     [net |-> "responded", status |-> "healthy", model_loaded |-> TRUE],
     [net |-> "responded", status |-> "healthy", model_loaded |-> FALSE],
     [net |-> "responded", status |-> "unhealthy", model_loaded |-> TRUE]}

checkLocalWhisperHealth_StatusOnly(response) ==
    IF response.net = "rejected" THEN FALSE
    ELSE response.status = "healthy"

checkLocalWhisperHealth(response) ==
    IF response.net = "rejected" THEN FALSE
    ELSE response.status = "healthy" /\ response.model_loaded

\* POST /transcribe: a rejected fetch, a non-2xx response, or a JSON body.
TranscribeResponses ==
    {[net |-> "rejected",  httpOk |-> FALSE, success |-> FALSE,
      text |-> EmptyStr, error |-> ""],
     [net |-> "responded", httpOk |-> FALSE, success |-> FALSE,
      text |-> EmptyStr, error |-> ""],
     [net |-> "responded", httpOk |-> TRUE,  success |-> FALSE,
      text |-> EmptyStr, error |-> "Model not loaded"],
     [net |-> "responded", httpOk |-> TRUE,  success |-> TRUE,
      text |-> T_hinglish, error |-> ""]}

transcribeAudioLocal_NoError(response) ==
    IF response.net = "rejected" \/ ~response.httpOk
      THEN [text |-> EmptyStr, success |-> FALSE, error |-> ""]
    ELSE [text |-> response.text, success |-> response.success,
          error |-> ""]

transcribeAudioLocal(response) ==
    IF response.net = "rejected"
      THEN [text |-> EmptyStr, success |-> FALSE, error |-> "Failed to fetch"]
    ELSE IF ~response.httpOk
      THEN [text |-> EmptyStr, success |-> FALSE, error |-> "Server error: 500"]
    ELSE [text |-> response.text, success |-> response.success,
          error |-> response.error]

\* POST /translate: a rejected fetch, a non-2xx response, or a JSON body.  A
\* successful body may still carry an empty translated_text.
TranslateResponses(text) ==
    {[net |-> "rejected",  httpOk |-> FALSE, success |-> FALSE,
      translated_text |-> EmptyStr, original_text |-> EmptyStr],
     [net |-> "responded", httpOk |-> FALSE, success |-> FALSE,
      translated_text |-> EmptyStr, original_text |-> EmptyStr],
     [net |-> "responded", httpOk |-> TRUE,  success |-> FALSE,
      translated_text |-> EmptyStr, original_text |-> text],
     [net |-> "responded", httpOk |-> TRUE,  success |-> TRUE,
      translated_text |-> EmptyStr, original_text |-> text],
     [net |-> "responded", httpOk |-> TRUE,  success |-> TRUE,
      translated_text |-> T_english, original_text |-> text]}

\* The catch block's return value.
TranslateErrorResult(text, message) ==
    [translated_text |-> EmptyStr, original_text |-> text,
     success |-> FALSE, error |-> message]

translateToEnglishLocal(text, response) ==
    IF response.net = "rejected" THEN TranslateErrorResult(text, "Failed to fetch")
    ELSE IF ~response.httpOk THEN TranslateErrorResult(text, "Server error: 500")
    ELSE [translated_text |-> response.translated_text,
          original_text |-> response.original_text,
          success |-> response.success, error |-> ""]

(***************************************************************************)
(* ComplaintForm.tsx: data                                                 *)
(***************************************************************************)

\* The rows of public.departments, in the order fetchDepartments asks for
\* (.order("name")); a row's id stands for its uuid.
D_electricity   == <<"e","l","e","c","t","r","i","c","i","t","y">>
D_public_health == <<"p","u","b","l","i","c","_","h","e","a","l","t","h">>

departments ==
    <<[id |-> "id-electricity", name |-> D_electricity],
      [id |-> "id-health",      name |-> D_public_health],
      [id |-> "id-roads",       name |-> roads_and_traffic],
      [id |-> "id-waste",       name |-> solid_waste_management],
      [id |-> "id-water",       name |-> water_supply]>>

\* useState({ description: "", location: "", severity: "low", ... })
InitialFormData ==
    [description |-> EmptyStr, location |-> EmptyStr, severity |-> low,
     department_id |-> "", summary |-> EmptyStr, llm_model_used |-> ""]

\* const deptMapping = { roads_and_traffic: 'roads', ... }
deptMapping(department) ==
    CASE department = roads_and_traffic      -> <<"r","o","a","d","s">>
      [] department = water_supply           -> W_water
      [] department = solid_waste_management -> W_waste
      [] OTHER                               -> Undefined

\* String.prototype.replace(/_/g, ' ')
replaceUnderscores(v) == [i \in 1..Len(v) |-> IF v[i] = "_" THEN " " ELSE v[i]]

\* departments.find(...)?.id, "" when no row matches.
matchedDeptId(llmOutput) ==
    LET deptKeyword == OrElse(deptMapping(llmOutput.department),
                              llmOutput.department)
        hit(d) == \/ includes(toLowerCase(d.name), deptKeyword)
                  \/ includes(toLowerCase(d.name),
                              replaceUnderscores(llmOutput.department))
        hits == SelectSeq(departments, hit)
    IN  IF Len(hits) = 0 THEN "" ELSE hits[1].id

\* setFormData(prev => ({ ...prev, description: llmOutput.description, ... }))
\* with matchedDept?.id already computed.
AutoFillWith(prev, llmOutput, id) ==
    [description   |-> llmOutput.description,
     severity      |-> llmOutput.severity,
     location      |-> OrElse(llmOutput.location, prev.location),
     department_id |-> IF id # "" THEN id ELSE prev.department_id,
     summary       |-> llmOutput.summary,
     llm_model_used |-> "llama"]

AutoFill(prev, llmOutput) ==
    AutoFillWith(prev, llmOutput, matchedDeptId(llmOutput))

\* finalText taken from the translation result whatever its outcome.
FinalText_NoFallback(text, translationResult) ==
    translationResult.translated_text

\* let finalText = text; if (translationResult.success &&
\* translationResult.translated_text) finalText = translated_text
FinalText(text, translationResult) ==
    IF translationResult.success /\ ~Falsy(translationResult.translated_text)
    THEN translationResult.translated_text
    ELSE text

\* The categorization server's answers the form is run against.
CategorizeResponses ==
    {NetworkFailure,
     ServiceFailure("Model not loaded"),
     ServiceSuccess(RawString(JsonOf(
         [department |-> water_supply, location |-> V_Andheri,
          severity |-> high, description |-> V_PipeBurst,
          summary |-> V_PipeLeak]))),
     ServiceSuccess(RawString(LinesOf(
         [department |-> V_GarbageDept, location |-> Undefined,
          severity |-> low, description |-> Undefined,
          summary |-> V_PipeLeak]))),
     ServiceSuccess(RawString(JsonOf(
         [department |-> V_electricity, location |-> EmptyStr,
          severity |-> V_urgent, description |-> V_PipeBurst,
          summary |-> V_PipeLeak]))),
     ServiceSuccess(RawString(JsonOf(
         [department |-> water_supply, location |-> EmptyStr,
          severity |-> low, description |-> V_PipeBurst,
          summary |-> Undefined])))}

\* callFineTunedLLM on every text and answer the form is run against.
categorized ==
    [userInput \in UserInputs |->
        [response \in CategorizeResponses |->
            callFineTunedLLM(userInput, response)]]

\* matchedDept?.id for every output callFineTunedLLM resolves with there.
matchedDept ==
    LET outs == {categorized[u][a].out :
                    <<u, a>> \in {p \in UserInputs \X CategorizeResponses :
                                     categorized[p[1]][p[2]].ok}}
    IN  [llmOutput \in outs |-> matchedDeptId(llmOutput)]

\* How many sessions a behaviour holds: clicks of 'Record Audio', uploads of
\* a file and clicks of 'Process Transcript with AI'.
MaxSessions == 2

(***************************************************************************)
(* State                                                                   *)
(***************************************************************************)

VARIABLES
    isRecording,      \* useState(false)
    isTranscribing,   \* useState(false)
    isProcessingAI,   \* useState(false)
    useAIAutofill,    \* useState(true)
    transcription,    \* useState('')
    formData,         \* useState({...})
    mediaRecorderRef, \* index into mic of mediaRecorderRef.current, 0 = null
    started,          \* the number of sessions started so far
    mic,              \* session id -> the stream startRecording asked for
    runs,             \* session id -> the session's pipeline run
    nCase,      \* normalizer run: the categorization output under test
    nInput,     \* normalizer run: userInput
    nResult     \* normalizer run: what callFineTunedLLM came to, or NotCalled

fvars == <<isRecording, isTranscribing, isProcessingAI, useAIAutofill,
           transcription, formData, mediaRecorderRef, started, mic, runs>>
nvars == <<nCase, nInput, nResult>>
vars  == <<fvars, nvars>>

NotCalled == [ok |-> FALSE, out |-> NoOutput, error |-> "not called"]

(***************************************************************************)
(* ComplaintForm.tsx: the pipeline runs                                    *)
(*                                                                         *)
(* A session starts with a click of 'Record Audio', the upload of a file   *)
(* or a click of 'Process Transcript with AI'.  Its run is one call of     *)
(* handleTranscribe (kind "audio") or of the button's onClick (kind        *)
(* "manual").  A run's pc names the await it is suspended at, that is, the *)
(* request it has in flight; hist is the run's own trace of requests and   *)
(* resolutions, probe the answer its health check got and toast the last   *)
(* toast it showed.  The record of a finished run, and of a stream that    *)
(* was stopped or never granted, is kept until the next session starts or  *)
(* another run finishes.                                                   *)
(***************************************************************************)

NoToast == [title |-> "", description |-> ""]

Toast_Silent(r, title, description) == r

Toast(r, title, description) ==
    [r EXCEPT !.toast = [title |-> title, description |-> description]]

Log(r, event) == [r EXCEPT !.hist = Append(@, event)]

\* No answer of GET /health yet.
NoProbe == [net |-> "none", status |-> "", model_loaded |-> FALSE]

\* The run with the answer its health check got.
Probed(r, response) == [r EXCEPT !.probe = response]

\* handleTranscribe(audio) up to its first await.
NewAudioRun(source, stream, autofill) ==
    [kind |-> "audio", source |-> source, stream |-> stream,
     autofill |-> autofill, pc |-> "health",
     probe |-> NoProbe,
     transcribedText |-> EmptyStr, translatedText |-> Undefined,
     finalText |-> EmptyStr,
     hist |-> <<"health_req">>, toast |-> NoToast]

\* The button's onClick up to its first await.
NewManualRun(text) ==
    [kind |-> "manual", source |-> "button", stream |-> 0,
     autofill |-> TRUE, pc |-> "translate",
     probe |-> NoProbe,
     transcribedText |-> text, translatedText |-> Undefined,
     finalText |-> EmptyStr,
     hist |-> <<"translate_req">>, toast |-> NoToast]

\* const result = await transcribeAudioLocal(audio)
StartTranscribe(r) == [Log(r, "transcribe_req") EXCEPT !.pc = "transcribe"]

\* The same without the await: processWithAI's request goes out while the
\* translation is in flight.
StartTranslate_NotAwaited(r, text) ==
    [Log(Log(r, "translate_req"), "categorize_req")
       EXCEPT !.pc = "translate", !.transcribedText = text]

\* const translationResult = await translateToEnglishLocal(transcribedText)
StartTranslate(r, text) ==
    [Log(r, "translate_req") EXCEPT !.pc = "translate", !.transcribedText = text]

\* processWithAI(finalText) up to its await of callFineTunedLLM.
StartCategorize(r, finalText) ==
    [Log(Toast(r, "AI Processing", "Analyzing with LLAMA model..."),
         "categorize_req")
       EXCEPT !.pc = "categorize", !.finalText = finalText]

\* The run after the translation resolved: processWithAI(finalText) when the
\* run categorizes (always in the button's onClick, under useAIAutofill in
\* handleTranscribe), the end of the run otherwise.
AfterTranslate(r, finalText) ==
    IF r.autofill THEN StartCategorize(r, finalText)
    ELSE [r EXCEPT !.pc = "done", !.finalText = finalText]

\* The end of a run, but for a first failed transcription, which is tried
\* once more.
Done_RetryTranscribe(r) ==
    IF r.hist[Len(r.hist)] = "transcribe_failed" /\ Len(r.hist) = 4
    THEN StartTranscribe(r)
    ELSE [r EXCEPT !.pc = "done"]

\* The handler returns: nothing more happens in the run.
Done(r) == [r EXCEPT !.pc = "done"]

\* The runs that await the call of a stage.
AtStage(pc) == {i \in DOMAIN runs : runs[i].pc = pc}

\* The runs and streams that are not over.
LiveRuns == [i \in {j \in DOMAIN runs : runs[j].pc # "done"} |-> runs[i]]
LiveMic  == [k \in {j \in DOMAIN mic : mic[j].state \notin {"stopped", "denied"}}
               |-> mic[k]]

\* The runs once run i has come to r.
Put(i, r) ==
    IF r.pc = "done" THEN (i :> r) @@ LiveRuns ELSE [runs EXCEPT ![i] = r]

\* stream.getTracks().forEach(track => track.stop()) after handleTranscribe
\* returns in mediaRecorder.onstop.
ReleaseStream(r) ==
    IF r.stream = 0 THEN LiveMic
    ELSE (r.stream :> [mic[r.stream] EXCEPT !.state = "stopped"]) @@ LiveMic

(***************************************************************************)
(* User actions                                                            *)
(***************************************************************************)

\* The switch 'AI Auto-fill Form Fields'.
ToggleAutofill ==
    /\ useAIAutofill' = ~useAIAutofill
    /\ UNCHANGED <<isRecording, isTranscribing, isProcessingAI, transcription,
                   formData, mediaRecorderRef, started, mic, runs, nvars>>

\* Typing into the 'Transcription' text area, which is never disabled.
TypeTranscript ==
    \E t \in {T_typed} :
        /\ t # transcription
        /\ transcription' = t
        /\ UNCHANGED <<isRecording, isTranscribing, isProcessingAI,
                       useAIAutofill, formData, mediaRecorderRef, started,
                       mic, runs, nvars>>

\* 'Upload Audio' (disabled={isTranscribing || isRecording || loading}) and
\* the choice of a file: handleFileUpload calls handleTranscribe(file).
UploadAudio ==
    /\ ~isTranscribing /\ ~isRecording
    /\ started < MaxSessions
    /\ started' = started + 1
    /\ runs' = LiveRuns @@ (started' :> NewAudioRun("upload", 0, useAIAutofill))
    /\ mic' = LiveMic
    /\ isTranscribing' = TRUE
    /\ UNCHANGED <<isRecording, isProcessingAI, useAIAutofill, transcription,
                   formData, mediaRecorderRef, nvars>>

\* 'Record Audio' (disabled={isTranscribing || loading}) while isRecording is
\* false: startRecording up to its await of getUserMedia.  The onstop handler
\* it installs later closes over this render's handleTranscribe, and so over
\* this render's useAIAutofill.
StartRecordingClick ==
    /\ ~isRecording /\ ~isTranscribing
    /\ started < MaxSessions
    /\ started' = started + 1
    /\ mic' = LiveMic @@
              (started' :> [state |-> "requested", autofill |-> useAIAutofill])
    /\ runs' = LiveRuns
    /\ UNCHANGED <<isRecording, isTranscribing, isProcessingAI, useAIAutofill,
                   transcription, formData, mediaRecorderRef, nvars>>

\* getUserMedia resolves.  new MediaRecorder(stream) and start() may throw
\* (recorderOk = FALSE): the catch block shows a toast and the stream, already
\* acquired, is held by nothing.
GetUserMediaResolve ==
    \E k \in DOMAIN mic, recorderOk \in BOOLEAN :
        /\ mic[k].state = "requested"
        /\ IF recorderOk
           THEN /\ mic' = [mic EXCEPT ![k].state = "recording"]
                /\ mediaRecorderRef' = k
                /\ isRecording' = TRUE
           ELSE /\ mic' = [mic EXCEPT ![k].state = "orphaned"]
                /\ UNCHANGED <<mediaRecorderRef, isRecording>>
        /\ UNCHANGED <<isTranscribing, isProcessingAI, useAIAutofill,
                       transcription, formData, started, runs, nvars>>

\* getUserMedia rejects (permission denied, no device).
GetUserMediaReject ==
    \E k \in DOMAIN mic :
        /\ mic[k].state = "requested"
        /\ mic' = [mic EXCEPT ![k].state = "denied"]
        /\ UNCHANGED <<isRecording, isTranscribing, isProcessingAI,
                       useAIAutofill, transcription, formData,
                       mediaRecorderRef, started, runs, nvars>>

\* 'Stop Recording': stopRecording stops mediaRecorderRef.current, whose
\* onstop handler calls handleTranscribe(audioBlob).
StopRecordingClick ==
    /\ isRecording /\ ~isTranscribing
    /\ mediaRecorderRef # 0
    /\ mic[mediaRecorderRef].state = "recording"
    /\ mic' = [mic EXCEPT ![mediaRecorderRef].state = "held"]
    /\ runs' = runs @@ (mediaRecorderRef :>
                  NewAudioRun("recording", mediaRecorderRef,
                              mic[mediaRecorderRef].autofill))
    /\ isRecording' = FALSE
    /\ isTranscribing' = TRUE
    /\ UNCHANGED <<isProcessingAI, useAIAutofill, transcription, formData,
                   mediaRecorderRef, started, nvars>>

\* 'Process Transcript with AI'
\* (disabled={!transcription.trim() || isProcessingAI || loading}).
ProcessTranscriptClick ==
    /\ trim(transcription) # EmptyStr
    /\ ~isProcessingAI
    /\ started < MaxSessions
    /\ started' = started + 1
    /\ runs' = LiveRuns @@ (started' :> NewManualRun(transcription))
    /\ mic' = LiveMic
    /\ isProcessingAI' = TRUE
    /\ UNCHANGED <<isRecording, isTranscribing, useAIAutofill, transcription,
                   formData, mediaRecorderRef, nvars>>

(***************************************************************************)
(* Resolution of the awaited calls                                         *)
(***************************************************************************)

\* The same without the finally block of handleTranscribe on the early
\* return: isTranscribing stays up after a failed probe.
HealthResolve_NoFinally ==
    \E i \in AtStage("health"), response \in HealthResponses :
        LET r == Probed(runs[i], response) IN
        /\ r.pc = "health"
        /\ IF checkLocalWhisperHealth(response)
           THEN /\ runs' = Put(i, StartTranscribe(Log(r, "health_ok")))
                /\ UNCHANGED mic
           ELSE /\ runs' = Put(i, Done(Toast(Log(r, "health_failed"),
                                  "Local Whisper Server Required",
                                  "Please start the local Whisper server")))
                /\ mic' = ReleaseStream(r)
        /\ UNCHANGED <<isRecording, isTranscribing, isProcessingAI,
                       useAIAutofill, transcription, formData,
                       mediaRecorderRef, started, nvars>>

\* await checkLocalWhisperHealth() resolves.
HealthResolve ==
    \E i \in AtStage("health"), response \in HealthResponses :
        LET r == Probed(runs[i], response) IN
        /\ r.pc = "health"
        /\ IF checkLocalWhisperHealth(response)
           THEN /\ runs' = Put(i, StartTranscribe(Log(r, "health_ok")))
                /\ UNCHANGED <<isTranscribing, mic>>
           ELSE /\ runs' = Put(i, Done(Toast(Log(r, "health_failed"),
                                  "Local Whisper Server Required",
                                  "Please start the local Whisper server")))
                /\ isTranscribing' = FALSE
                /\ mic' = ReleaseStream(r)
        /\ UNCHANGED <<isRecording, isProcessingAI, useAIAutofill,
                       transcription, formData, mediaRecorderRef, started,
                       nvars>>

\* await transcribeAudioLocal(audio) resolves.
TranscribeResolve ==
    \E i \in AtStage("transcribe"), response \in TranscribeResponses :
        LET r == runs[i]
            result == transcribeAudioLocal(response)
        IN
        /\ r.pc = "transcribe"
        /\ IF result.success
           THEN /\ transcription' = result.text
                /\ runs' = Put(i, StartTranslate(Log(r, "transcribe_ok"), result.text))
                /\ UNCHANGED <<isTranscribing, mic>>
           ELSE /\ runs' = Put(i, Done(Toast(Log(r, "transcribe_failed"),
                                  "Transcription failed",
                                  IF result.error # "" THEN result.error
                                  ELSE "Local transcription failed")))
                /\ isTranscribing' = FALSE
                /\ mic' = ReleaseStream(r)
                /\ UNCHANGED transcription
        /\ UNCHANGED <<isRecording, isProcessingAI, useAIAutofill, formData,
                       mediaRecorderRef, started, nvars>>

\* await translateToEnglishLocal(...) resolves, in handleTranscribe and in
\* the button's onClick.
TranslateResolve ==
    \E i \in AtStage("translate") :
      \E response \in TranslateResponses(runs[i].transcribedText) :
        LET r == runs[i]
            translationResult == translateToEnglishLocal(r.transcribedText, response)
            finalText == FinalText(r.transcribedText, translationResult)
            r1 == [Log(r, IF translationResult.success THEN "translate_ok"
                          ELSE IF translationResult.error # ""
                            THEN "translate_error"
                          ELSE "translate_failed")
                     EXCEPT !.translatedText = translationResult.translated_text]
            r2 == IF r.kind = "audio"
                  THEN Toast(r1, "Transcription complete",
                             "Audio transcribed and translated to English")
                  ELSE r1
        IN
        /\ r.pc = "translate"
        /\ formData' = [formData EXCEPT !.description = finalText]
        /\ runs' = Put(i, AfterTranslate(r2, finalText))
        /\ IF runs'[i].pc = "categorize"
           THEN /\ isProcessingAI' = TRUE
                /\ UNCHANGED <<isTranscribing, mic>>
           ELSE /\ isTranscribing' = FALSE
                /\ mic' = ReleaseStream(r)
                /\ UNCHANGED isProcessingAI
        /\ UNCHANGED <<isRecording, useAIAutofill, transcription,
                       mediaRecorderRef, started, nvars>>

\* await callFineTunedLLM(grievanceText, selectedLLMModel) resolves or
\* rejects in processWithAI; its finally, and then its caller's finally.
CategorizeResolve ==
    \E i \in AtStage("categorize"), response \in CategorizeResponses :
        LET r == runs[i]
            llm == categorized[r.finalText][response]
        IN
        /\ r.pc = "categorize"
        /\ IF llm.ok
           THEN /\ formData' = AutoFillWith(formData, llm.out, matchedDept[llm.out])
                /\ runs' = Put(i, Done(Toast(Log(r, "categorize_ok"),
                                  "AI Auto-fill Complete",
                                  "Processed with LLAMA model. Form fields auto-filled.")))
           ELSE /\ UNCHANGED formData
                /\ runs' = Put(i, Done(Toast(Log(r, "categorize_failed"),
                                  "AI Processing Failed",
                                  "Could not auto-fill form. Please fill manually.")))
        /\ isProcessingAI' = FALSE
        /\ IF r.kind = "audio"
           THEN /\ isTranscribing' = FALSE
                /\ mic' = ReleaseStream(r)
           ELSE UNCHANGED <<isTranscribing, mic>>
        /\ UNCHANGED <<isRecording, useAIAutofill, transcription,
                       mediaRecorderRef, started, nvars>>

Init ==
    /\ isRecording = FALSE /\ isTranscribing = FALSE /\ isProcessingAI = FALSE
    /\ useAIAutofill = TRUE
    /\ transcription = EmptyStr
    /\ formData = InitialFormData
    /\ mediaRecorderRef = 0
    /\ started = 0
    /\ mic = <<>>
    /\ runs = <<>>
    /\ nCase = [shape |-> "lines", cand |-> NoOutput, order |-> InOrder]
    /\ nInput = EmptyStr
    /\ nResult = NotCalled

Next ==
    \/ ToggleAutofill
    \/ TypeTranscript
    \/ UploadAudio
    \/ StartRecordingClick
    \/ GetUserMediaResolve
    \/ GetUserMediaReject
    \/ StopRecordingClick
    \/ ProcessTranscriptClick
    \/ HealthResolve
    \/ TranscribeResolve
    \/ TranslateResolve
    \/ CategorizeResolve

Spec == Init /\ [][Next]_vars

\* Every awaited call settles: the promise of getUserMedia and of each fetch
\* resolves or rejects.  The user's clicks are under no obligation.
Settles ==
    /\ WF_vars(GetUserMediaResolve \/ GetUserMediaReject)
    /\ WF_vars(HealthResolve)
    /\ WF_vars(TranscribeResolve)
    /\ WF_vars(TranslateResolve)
    /\ WF_vars(CategorizeResolve)

SpecLive == Spec /\ Settles

(***************************************************************************)
(* The normalizer on its own: callFineTunedLLM on every case               *)
(***************************************************************************)

NormInputs == {T_english, T_typed}

NormInit ==
    /\ nCase \in Cases
    /\ nInput \in NormInputs
    /\ nResult = NotCalled
    /\ isRecording = FALSE /\ isTranscribing = FALSE /\ isProcessingAI = FALSE
    /\ useAIAutofill = TRUE /\ transcription = EmptyStr
    /\ formData = InitialFormData /\ mediaRecorderRef = 0
    /\ started = 0 /\ mic = <<>> /\ runs = <<>>

Normalize ==
    /\ nResult = NotCalled
    /\ nResult' = callFineTunedLLM(nInput, ServiceSuccess(RawOf(nCase)))
    /\ UNCHANGED <<nCase, nInput, fvars>>

NormNext == Normalize

SpecNorm == NormInit /\ [][NormNext]_vars

(***************************************************************************)
(* categorizeWithFallback on its own                                       *)
(***************************************************************************)

T_located == <<"u","r","g","e","n","t"," ","l","e","a","k"," ","n","e","a","r"," ","A","n","d","h","e","r","i"," ","E","a","s","t"," ","t","o","d","a","y">>
T_drain   == <<"d","r","a","i","n"," ","b","l","o","c","k","e","d"," ","i","n"," ","d","a","d","a","r"," ","a","t"," ","S","h","i","v","a","j","i"," ","P","a","r","k">>

\* A complaint of n characters.
LongInput(n) ==
    LET head == <<"m","i","n","o","r"," ","p","o","t","h","o","l","e"," ","a","t"," ","D","a","d","a","r"," ">>
    IN  [i \in 1..n |-> IF i <= Len(head) THEN head[i] ELSE "x"]

FallbackInputs ==
    {T_hinglish, T_english, T_typed, T_located, T_drain,
     LongInput(RuleSummaryLen - 1), LongInput(RuleSummaryLen),
     LongInput(RuleSummaryLen + 1), LongInput(RuleSummaryLen + 20)}

\* Answers read as text: complete, or short of a description or a summary.
FallbackCandidates ==
    {c \in Candidates :
        /\ c.department \in {water_supply, V_electricity}
        /\ c.severity = low
        /\ c.location = V_Andheri
        /\ c.description \in {V_PipeBurst, Undefined}
        /\ c.summary \in {V_PipeLeak, Undefined}}

\* The ways the /categorize call can go: the fetch rejects, the server
\* answers non-2xx, it answers success:false, or it answers with a text.
FallbackCases ==
    [shape : {"rejected", "http_error", "success_false"},
     cand : {NoOutput}, order : {InOrder}]
    \cup [shape : {"json", "lines"}, cand : FallbackCandidates,
          order : {InOrder}]

ResponseOf(case) ==
    CASE case.shape = "rejected"      -> NetworkFailure
      [] case.shape = "http_error"    ->
             [NetworkFailure EXCEPT !.net = "responded"]
      [] case.shape = "success_false" -> ServiceFailure("Model not loaded")
      [] OTHER                        -> ServiceSuccess(RawOf(case))

FallbackInit ==
    /\ nCase \in FallbackCases
    /\ nInput \in FallbackInputs
    /\ nResult = NotCalled
    /\ isRecording = FALSE /\ isTranscribing = FALSE /\ isProcessingAI = FALSE
    /\ useAIAutofill = TRUE /\ transcription = EmptyStr
    /\ formData = InitialFormData /\ mediaRecorderRef = 0
    /\ started = 0 /\ mic = <<>> /\ runs = <<>>

Categorize ==
    /\ nResult = NotCalled
    /\ nResult' = categorizeWithFallback(nInput, ResponseOf(nCase))
    /\ UNCHANGED <<nCase, nInput, fvars>>

FallbackNext == Categorize

SpecFallback == FallbackInit /\ [][FallbackNext]_vars

(***************************************************************************)
(* Properties of the pipeline (checked under Spec)                         *)
(***************************************************************************)

EventsOf(r) == {r.hist[k] : k \in DOMAIN r.hist}

TranslateResolutions == {"translate_ok", "translate_failed", "translate_error"}

\* The translation of run r resolved without a usable result.
TranslateFailed(r) ==
    EventsOf(r) \cap {"translate_failed", "translate_error"} # {}

\* The events that resolve a request.
ResolutionsOf(request) ==
    CASE request = "health_req"     -> {"health_ok", "health_failed"}
      [] request = "transcribe_req" -> {"transcribe_ok", "transcribe_failed"}
      [] request = "translate_req"  -> TranslateResolutions
      [] request = "categorize_req" -> {"categorize_ok", "categorize_failed"}
      [] OTHER                      -> {}

\* C2: at most one of the transcribe, translate and categorize calls is in
\* flight at any time, whatever the user does with the enabled buttons.
C2_OneStageInFlight ==
    Cardinality({i \in DOMAIN runs :
                    runs[i].pc \in {"transcribe", "translate", "categorize"}}) <= 1

\* C2, the case that breaks it: an upload is being transcribed while the
\* text typed into the transcript box is being translated.
C2_TwoInFlightWitness ==
    \E i, j \in DOMAIN runs :
        /\ runs[i].source = "upload" /\ runs[i].pc = "transcribe"
        /\ runs[j].kind = "manual" /\ runs[j].pc = "translate"

\* C3: within a run the translate request is issued only after the
\* transcribe call has resolved, the categorize request only after the
\* translate call has resolved, and no request is issued while an earlier
\* request of the run is unresolved.
C3_StagesInOrder ==
    \A i \in DOMAIN runs :
        LET h == runs[i].hist IN
        \A k \in DOMAIN h :
            /\ (h[k] = "translate_req" /\ runs[i].kind = "audio")
                   => (k > 1 /\ h[k - 1] = "transcribe_ok")
            /\ h[k] = "categorize_req"
                   => (k > 1 /\ h[k - 1] \in TranslateResolutions)
            /\ (ResolutionsOf(h[k]) # {} /\ k < Len(h))
                   => h[k + 1] \in ResolutionsOf(h[k])

\* C3: a recording has gone through every stage.
C3_FullRunWitness ==
    \E i \in DOMAIN runs :
        /\ runs[i].source = "recording"
        /\ runs[i].hist = <<"health_req", "health_ok",
                            "transcribe_req", "transcribe_ok",
                            "translate_req", "translate_ok",
                            "categorize_req", "categorize_ok">>

C5_ClientFallsBack ==
    \A i \in DOMAIN runs :
        "translate_error" \in EventsOf(runs[i]) =>
            /\ runs[i].translatedText = runs[i].transcribedText
            /\ runs[i].translatedText # EmptyStr

\* C5, the case that breaks it: the client has caught an error and returned
\* an empty translated_text for a text that is not empty.
C5_EmptyTranslationWitness ==
    \E i \in DOMAIN runs :
        /\ "translate_error" \in EventsOf(runs[i])
        /\ runs[i].transcribedText = T_hinglish
        /\ runs[i].translatedText = EmptyStr

\* Run i goes, in this step, from the stage at to its end with the event
\* last in its trace.
Ends(i, at, last) ==
    /\ i \in DOMAIN runs /\ runs[i].pc = at
    /\ i \in DOMAIN runs' /\ runs'[i].pc = "done"
    /\ runs'[i].hist[Len(runs'[i].hist)] = last

\* C11: when the categorization of a run fails, processWithAI leaves every
\* form field as it was, and the description field holds the text the run
\* wrote to it before its categorization began.
C11_FailureKeepsDescription ==
    [][\A i \in DOMAIN runs :
          Ends(i, "categorize", "categorize_failed")
          => /\ formData' = formData
             /\ formData'.description = runs[i].finalText
      ]_vars

\* C11, the case that breaks it: the categorization of an audio run has
\* failed and the description field holds what another run's auto-fill put
\* there in the meantime.
C11_ClobberedWitness ==
    \E i \in DOMAIN runs :
        /\ runs[i].kind = "audio" /\ runs[i].pc = "done"
        /\ runs[i].hist[Len(runs[i].hist)] = "categorize_failed"
        /\ runs[i].finalText = T_english
        /\ formData.description = V_PipeBurst

\* Run i appends event to its trace in this step.
Logs(i, event) ==
    /\ i \in DOMAIN runs /\ i \in DOMAIN runs'
    /\ Len(runs'[i].hist) > Len(runs[i].hist)
    /\ \E k \in (Len(runs[i].hist) + 1)..Len(runs'[i].hist) :
           runs'[i].hist[k] = event

FailureTitles == {"Transcription failed", "AI Processing Failed"}

\* Run i has halted with a diagnostic and both busy flags are down.
HaltsIdle(i) ==
    /\ runs'[i].pc = "done"
    /\ runs'[i].hist[Len(runs'[i].hist)] \notin
           {"translate_req", "categorize_req"}
    /\ runs'[i].toast.title \in FailureTitles
    /\ ~isTranscribing' /\ ~isProcessingAI'

TranscribeErrors ==
    {transcribeAudioLocal(response).error : response \in
        {x \in TranscribeResponses : ~transcribeAudioLocal(x).success}}

ProbeHealthy(r) ==
    /\ r.probe.net = "responded"
    /\ r.probe.status = "healthy"
    /\ r.probe.model_loaded

GrievanceProbeEvents ==
    {"grievance_health_req", "grievance_health_ok", "grievance_health_failed"}

\* C21: in every run, POST /categorize comes right after a liveness probe
\* of the categorization service that succeeded, and a run whose
\* categorization was not made for want of the service says which server
\* to start.
C21_ProbeGuardsCategorize ==
    \A i \in DOMAIN runs :
        \A k \in DOMAIN runs[i].hist :
            runs[i].hist[k] = "categorize_req"
            => k > 1 /\ runs[i].hist[k - 1] = "grievance_health_ok"

\* C21, the case that breaks it: a run has posted to /categorize without
\* any probe of the categorization service, the call has failed, and the
\* toast names no server.
C21_UnprobedCategorizeWitness ==
    \E i \in DOMAIN runs :
        /\ runs[i].pc = "done"
        /\ "categorize_req" \in EventsOf(runs[i])
        /\ runs[i].hist[Len(runs[i].hist)] = "categorize_failed"
        /\ EventsOf(runs[i]) \cap GrievanceProbeEvents = {}
        /\ runs[i].toast = [title |-> "AI Processing Failed",
                            description |->
                              "Could not auto-fill form. Please fill manually."]

\* The tracks of stream k have been stopped (the record of a stopped stream
\* is dropped later).
Released(k) == k \notin DOMAIN mic \/ mic[k].state = "stopped"

\* C22: every microphone stream that getUserMedia handed to startRecording
\* and that is no longer recording (its recorder was stopped, or
\* startRecording failed after acquiring it) is eventually released.
C22_StreamEventuallyReleased ==
    \A k \in 1..MaxSessions :
        (k \in DOMAIN mic /\ mic[k].state \in {"held", "orphaned"})
        ~> Released(k)

\* C22, the case that breaks it: getUserMedia has resolved, the MediaRecorder
\* could not be constructed or started, and the stream is live with nothing
\* left that refers to it.
C22_OrphanedStreamWitness ==
    \E k \in DOMAIN mic :
        /\ mic[k].state = "orphaned"
        /\ mediaRecorderRef # k
        /\ k \notin DOMAIN runs

\* The form a session's output populates when it starts from the fresh
\* record of useState.
FreshlyFilled(llmOutput) ==
    AutoFillWith(InitialFormData, llmOutput, matchedDept[llmOutput])

\* C23: when the categorization of a run succeeds, the form it leaves is
\* the one its own normalized output populates from a fresh record: no
\* field holds what an earlier session filled in.
C23_PopulatedFromOwnOutput ==
    [][\A i \in DOMAIN runs :
          Logs(i, "categorize_ok")
          => \E response \in CategorizeResponses :
                LET llm == categorized[runs[i].finalText][response] IN
                llm.ok /\ formData' = FreshlyFilled(llm.out)
      ]_vars

\* C23, the case that breaks it: the last auto-fill came from the output
\* whose department is electricity and whose location is empty, and the
\* form still shows the location an earlier session filled in.
C23_StaleLocationWitness ==
    \E i \in DOMAIN runs :
        /\ runs[i].pc = "done"
        /\ runs[i].hist[Len(runs[i].hist)] = "categorize_ok"
        /\ formData.department_id = "id-electricity"
        /\ formData.description = V_PipeBurst
        /\ formData.location = V_Andheri

Requests == {"health_req", "transcribe_req", "translate_req", "categorize_req"}

Failures ==
    {"health_failed", "transcribe_failed", "translate_failed",
     "translate_error", "categorize_failed"}

\* C25: in every run each external call (the health probe, transcribe,
\* translate, categorize) is issued at most once, and once a call of the
\* run has failed the only request the run still makes is the
\* categorization that follows a failed translation.
C25_NoRetry ==
    \A i \in DOMAIN runs :
        LET h == runs[i].hist IN
        \A k \in DOMAIN h :
            h[k] \in Requests
            => \A j \in 1..(k - 1) :
                  /\ h[j] # h[k]
                  /\ h[j] \in Failures
                     => /\ h[k] = "categorize_req"
                        /\ h[j] \in {"translate_failed", "translate_error"}
                        /\ k = j + 1

\* C25, the case: the transcription of a run has failed and the run has
\* ended with its one probe and its one transcribe call.
C25_FailedOnceWitness ==
    \E i \in DOMAIN runs :
        /\ runs[i].pc = "done"
        /\ runs[i].hist =
               <<"health_req", "health_ok", "transcribe_req", "transcribe_failed">>
        /\ runs[i].toast.title = "Transcription failed"
        /\ ~isTranscribing

\* Some stage of some run has failed.
SomeFailure == \E i \in DOMAIN runs : EventsOf(runs[i]) \cap Failures # {}

\* No handler is busy: the fields can be edited and the form submitted.
Idle == ~isTranscribing /\ ~isProcessingAI /\ ~isRecording

CanStopRecording ==
    /\ isRecording /\ ~isTranscribing
    /\ mediaRecorderRef # 0
    /\ mic[mediaRecorderRef].state = "recording"

Starts(i) == i \notin DOMAIN runs /\ i \in DOMAIN runs'

\* C29: an audio run started while the 'AI Auto-fill' switch is off is not
\* going to categorize; and when the translation of a run that is not going
\* to categorize resolves, the run ends there without a categorize call,
\* the description is the text the run settled on (the translation, or the
\* romanized text when there is none) and the other form fields are what
\* they were.
C29_SwitchOffNeverCategorizes ==
    [][\A i \in DOMAIN runs' :
          /\ (Starts(i) /\ runs'[i].kind = "audio" /\ ~useAIAutofill)
             => ~runs'[i].autofill
          /\ (i \in DOMAIN runs /\ runs[i].kind = "audio"
                 /\ ~runs[i].autofill /\ runs[i].pc = "translate"
                 /\ runs'[i] # runs[i])
             => /\ runs'[i].pc = "done"
                /\ "categorize_req" \notin EventsOf(runs'[i])
                /\ runs'[i].finalText =
                       FinalText(runs[i].transcribedText,
                                 [success |-> ~TranslateFailed(runs'[i]),
                                  translated_text |-> runs'[i].translatedText])
                /\ formData' =
                       [formData EXCEPT !.description = runs'[i].finalText]
      ]_vars

\* C29, the case that breaks it: the switch is off, and the run of a
\* recording started while it was on has posted to /categorize.
C29_StaleSwitchWitness ==
    \E i \in DOMAIN runs :
        /\ runs[i].source = "recording"
        /\ runs[i].autofill /\ ~useAIAutofill
        /\ runs[i].hist = <<"health_req", "health_ok", "transcribe_req",
                            "transcribe_ok", "translate_req", "translate_ok",
                            "categorize_req">>

(***************************************************************************)
(* Properties of the normalizer (checked under SpecNorm)                   *)
(***************************************************************************)

\* callFineTunedLLM has been applied to the case.
Called == nResult # NotCalled

\* The case's candidate value of a field, a field left out read as empty.
RawField(f) == IF nCase.cand[f] = Undefined THEN EmptyStr ELSE nCase.cand[f]

\* The shapes in which the text is the candidate and nothing else.
PlainShapes == {"object", "json", "lines"}

HasWord(v, w) == includes(toLowerCase(v), w)

\* C1: whenever callFineTunedLLM returns a record, its five fields are
\* present and non-null, its department is one of roads_and_traffic,
\* water_supply, solid_waste_management and its severity one of low, medium,
\* high, critical.
C1_RecordHasEnumFields ==
    (Called /\ nResult.ok) =>
        /\ \A f \in DOMAIN nResult.out : nResult.out[f] # Undefined
        /\ nResult.out.department \in DepartmentEnum
        /\ nResult.out.severity \in SeverityEnum

\* C1, the case that breaks it: a JSON object naming a department and a
\* severity outside the enums, and no location, is returned as it is.
C1_LeakWitness ==
    /\ Called /\ nResult.ok
    /\ nCase.shape = "json"
    /\ nCase.cand.department = V_electricity
    /\ nCase.cand.severity = V_urgent
    /\ nCase.cand.location = Undefined
    /\ nResult.out.department = V_electricity
    /\ nResult.out.severity = V_urgent
    /\ nResult.out.location = Undefined

C6_ByPriority(v) ==
    IF HasWord(v, W_road) \/ HasWord(v, W_traffic) THEN roads_and_traffic
    ELSE IF HasWord(v, W_water) THEN water_supply
    ELSE IF HasWord(v, W_waste) \/ HasWord(v, W_garbage)
      THEN solid_waste_management
    ELSE roads_and_traffic

C7_SeverityStrict ==
    (Called /\ nCase.shape \in PlainShapes /\ nResult.ok) =>
        LET v == RawField("severity")
        IN  /\ v = V_Low => nResult.out.severity = medium
            /\ v = V_urgent => nResult.out.severity = medium
            /\ v = critical => nResult.out.severity = critical
            /\ nResult.out.severity = IF v \in SeverityEnum THEN v ELSE medium

\* C7, the case that breaks it: the severity "urgent" of a JSON object is
\* returned as it is.
C7_UrgentWitness ==
    /\ Called /\ nResult.ok
    /\ nCase.shape = "json"
    /\ nCase.cand.severity = V_urgent
    /\ nResult.out.severity = V_urgent

\* C8: for a text holding a valid JSON object and key:value-looking prose
\* lines outside it, the record returned takes every value from the JSON
\* object and none from the prose.
C8_JsonFirst ==
    (Called /\ nCase.shape \in {"json_in_prose", "json_then_brace"}
            /\ nResult.ok) =>
        nResult.out = AsLLMOutput(ObjectOf(nCase.cand))

\* C8, the case that breaks it: after a valid JSON object comes a prose line
\* with a closing brace, and the summary returned is the prose's.
C8_ProseWinsWitness ==
    /\ Called /\ nResult.ok
    /\ nCase.shape = "json_then_brace"
    /\ nCase.cand.summary = V_PipeLeak
    /\ nCase.cand.department = water_supply
    /\ nCase.cand.description = V_PipeBurst
    /\ nResult.out.summary # V_PipeLeak

\* C9: on every parse path (object, embedded JSON, lines) a candidate with a
\* missing or invalid field is not reported as a failure: a record is
\* returned, with the default in place of each such field.
C9_DefaultsOnEveryPath ==
    (Called /\ nCase.shape \in PlainShapes) =>
        /\ nResult.ok
        /\ nCase.cand.department \notin DepartmentEnum
               => nResult.out.department \in DepartmentEnum
        /\ nCase.cand.severity \notin SeverityEnum
               => nResult.out.severity \in SeverityEnum
        /\ Falsy(nCase.cand.summary) => ~Falsy(nResult.out.summary)
        /\ Falsy(nCase.cand.description) => ~Falsy(nResult.out.description)

\* C9, the case that breaks it: a JSON object that is complete but for its
\* summary is rejected.
C9_MissingSummaryWitness ==
    /\ Called /\ ~nResult.ok
    /\ nCase.shape = "json"
    /\ nCase.cand.department = water_supply
    /\ nCase.cand.severity = low
    /\ nCase.cand.description = V_PipeBurst
    /\ nCase.cand.summary = Undefined

\* C10: when the parsed output's department or severity is not an enum
\* member, or its description is empty, callFineTunedLLM rejects instead of
\* returning a record.
C10_InvalidIsRejected ==
    Called =>
        LET parsedOutput == ParseGenerated(RawOf(nCase))
        IN  (\/ parsedOutput.department \notin DepartmentEnum
             \/ parsedOutput.severity \notin SeverityEnum
             \/ Falsy(parsedOutput.description)) => ~nResult.ok

\* C10, the case that breaks it: an object whose department is not an enum
\* member is returned.
C10_InvalidReturnedWitness ==
    /\ Called /\ nResult.ok
    /\ nCase.shape = "object"
    /\ nCase.cand.department = V_electricity
    /\ nResult.out.department = V_electricity

C13_DescriptionFromInput ==
    (Called /\ nCase.shape \in PlainShapes
            /\ Falsy(nCase.cand.description) /\ Falsy(nCase.cand.summary)) =>
        /\ nResult.ok
        /\ nResult.out.description = nInput

\* C13, the case that breaks it: lines without description and summary give
\* the description "No description provided".
C13_PlaceholderWitness ==
    /\ Called /\ nResult.ok
    /\ nCase.shape = "lines"
    /\ nCase.cand.description = Undefined
    /\ nCase.cand.summary = Undefined
    /\ nInput = T_english
    /\ nResult.out.description = NoDescriptionProvided

C15_LineOrderIndependent ==
    (Called /\ nCase.shape = "lines" /\ nCase.cand \in FullCandidates) =>
        /\ nResult.ok
        /\ nResult.out =
             [department  |-> C6_ByPriority(nCase.cand.department),
              severity    |-> IF toLowerCase(nCase.cand.severity) \in SeverityEnum
                              THEN toLowerCase(nCase.cand.severity)
                              ELSE medium,
              location    |-> nCase.cand.location,
              description |-> nCase.cand.description,
              summary     |-> nCase.cand.summary]

\* C15: the lines have been normalized in the order summary, description,
\* location, severity, department.
C15_ReversedWitness ==
    /\ Called /\ nResult.ok
    /\ nCase.shape = "lines"
    /\ nCase.order = <<5, 4, 3, 2, 1>>
    /\ nCase.cand.department = V_WaterBoard
    /\ nResult.out.department = water_supply
    /\ nResult.out.summary = V_PipeLeak

\* The candidate is a valid five-field object: department and severity in
\* their enums, description and summary not empty, any string as location.
ValidCandidate(c) ==
    /\ c.department \in DepartmentEnum
    /\ c.severity \in SeverityEnum
    /\ c.location # Undefined
    /\ ~Falsy(c.description)
    /\ ~Falsy(c.summary)

\* C16: a valid five-field object, given as an object or as JSON text, is
\* returned unchanged, and normalizing the record returned gives it again.
C16_ValidObjectUnchanged ==
    (Called /\ nCase.shape \in {"object", "json"}
            /\ ValidCandidate(nCase.cand)) =>
        /\ nResult.ok
        /\ nResult.out = nCase.cand
        /\ callFineTunedLLM(nInput,
               ServiceSuccess(RawObject(ObjectOf(nResult.out)))) = nResult
        /\ callFineTunedLLM(nInput,
               ServiceSuccess(RawString(JsonOf(nResult.out)))) = nResult

\* C16: a valid JSON object with the location "" has been normalized.
C16_EmptyLocationWitness ==
    /\ Called /\ nResult.ok
    /\ nCase.shape = "json"
    /\ ValidCandidate(nCase.cand)
    /\ nCase.cand.location = EmptyStr
    /\ nResult.out.location = EmptyStr

\* C17: the lines 'Department: water', 'Severity: low', 'Location:' and
\* 'Summary: S', with no description line, normalize to water_supply, low,
\* the location "", and S as both description and summary.
C17_EndToEnd ==
    (/\ Called
     /\ nCase.shape = "lines" /\ nCase.order = InOrder
     /\ nCase.cand = [department |-> V_water, severity |-> low,
                      location |-> EmptyStr, description |-> Undefined,
                      summary |-> V_PipeLeak]) =>
        /\ nResult.ok
        /\ nResult.out = [department |-> water_supply, severity |-> low,
                          location |-> EmptyStr, description |-> V_PipeLeak,
                          summary |-> V_PipeLeak]

\* C17: the scenario's text has been normalized.
C17_ScenarioWitness ==
    /\ Called /\ nResult.ok
    /\ RawOf(nCase) = RawString(
           <<"D","e","p","a","r","t","m","e","n","t",":"," ","w","a","t","e","r","\n",
             "S","e","v","e","r","i","t","y",":"," ","l","o","w","\n",
             "L","o","c","a","t","i","o","n",":"," ","\n",
             "S","u","m","m","a","r","y",":"," ">> \o V_PipeLeak)
    /\ nResult.out.description = V_PipeLeak

\* C24: the location of every record callFineTunedLLM returns is a string:
\* the empty string when the candidate has no location, and otherwise, when
\* the text is the candidate and nothing else, the candidate's location.
C24_LocationIsString ==
    (Called /\ nResult.ok) =>
        /\ nResult.out.location # Undefined
        /\ nCase.cand.location = Undefined
               => nResult.out.location = EmptyStr
        /\ (nCase.shape \in PlainShapes /\ nCase.cand.location # Undefined)
               => nResult.out.location = nCase.cand.location

\* C24, the case that breaks it: an object with the four required fields,
\* all valid, and no location key is returned with no location at all.
C24_NoLocationWitness ==
    /\ Called /\ nResult.ok
    /\ nCase.shape = "object"
    /\ ValidCandidate([nCase.cand EXCEPT !.location = EmptyStr])
    /\ nCase.cand.location = Undefined
    /\ nResult.out.location = Undefined

\* C27: for a text made of a valid JSON object followed by further text
\* that holds a closing brace, the record returned is the one the first
\* object gives.
C27_FirstObjectUsed ==
    (Called /\ nCase.shape = "json_then_brace"
            /\ ValidCandidate(nCase.cand)) =>
        /\ nResult.ok
        /\ nResult.out = AsLLMOutput(ObjectOf(nCase.cand))

\* C27, the case that breaks it: the object names the location Andheri and
\* the description "Pipe burst"; the record returned has no location and the
\* trailing prose as its description.
C27_GreedySpanWitness ==
    /\ Called /\ nResult.ok
    /\ nCase.shape = "json_then_brace"
    /\ ValidCandidate(nCase.cand)
    /\ nCase.cand.location = V_Andheri
    /\ nCase.cand.description = V_PipeBurst
    /\ nResult.out.location = EmptyStr
    /\ nResult.out.description = <<"s","e","e"," ","}">>

\* C28: when the text holds a brace-delimited span that JSON.parse rejects,
\* callFineTunedLLM does not reject: it returns what parsePlainTextOutput
\* makes of the whole text.
C28_BadSpanFallsBackToLines ==
    (Called /\ RawOf(nCase).kind = "string") =>
        LET text == RawOf(nCase).text
            span == JsonMatch(text)
        IN  (span # Undefined /\ ~JSONParse(span).ok)
            => /\ nResult.ok
               /\ nResult.out = parsePlainTextOutput(text)

\* C28, the case: the span runs on into a prose line and is not JSON; the
\* record returned is read off the lines, the department from the first
\* line, the summary from the prose, the severity defaulted.
C28_LinesOfBadSpanWitness ==
    /\ Called /\ nResult.ok
    /\ nCase.shape = "json_then_brace"
    /\ nCase.cand.department = V_GarbageDept
    /\ nCase.cand.severity = critical
    /\ ~JSONParse(JsonMatch(RawOf(nCase).text)).ok
    /\ nResult.out.department = solid_waste_management
    /\ nResult.out.severity = medium
    /\ nResult.out.summary = <<"s","e","e"," ","}">>

(***************************************************************************)
(* Properties of categorizeWithFallback (checked under SpecFallback)       *)
(***************************************************************************)

\* callFineTunedLLM fails on the case.
LLMFails == ~callFineTunedLLM(nInput, ResponseOf(nCase)).ok

\* C30: categorizeWithFallback always resolves; when callFineTunedLLM fails
\* (network, non-2xx, success:false, validation) the record is the rule-based
\* one: department and severity are enum members, the description is the
\* input itself, and the summary is the input when it has at most 100
\* characters and its first 100 characters followed by '...' otherwise.
C30_FallbackNeverRejects ==
    Called =>
        /\ nResult.ok
        /\ LLMFails =>
              /\ nResult.out = simpleCategorization(nInput)
              /\ nResult.out.department \in DepartmentEnum
              /\ nResult.out.severity \in SeverityEnum
              /\ nResult.out.description = nInput
              /\ nResult.out.summary =
                     IF Len(nInput) > 100
                     THEN SubSeq(nInput, 1, 100) \o <<".", ".", ".">>
                     ELSE nInput

\* C30, the case: the fetch was rejected for an input of exactly 100
\* characters, and the record's summary is the input without dots.
C30_HundredCharsWitness ==
    /\ Called /\ nResult.ok
    /\ nCase.shape = "rejected"
    /\ Len(nInput) = 100
    /\ nResult.out.summary = nInput
    /\ nResult.out.severity = low
    /\ nResult.out.location = <<"D","a","d","a","r">>

=============================================================================
